---- MODULE Spec2Model ----
(***************************************************************************)
(* Vision keyboard / virtual piano: the per-frame pipeline of key.py and   *)
(* piano.py (dominant blob -> key zone -> key state machine -> serial      *)
(* commands, plus key.py's periodic coordinate print).                     *)
(*                                                                         *)
(* Python's None is the string "None"; a command is the very string the    *)
(* program writes ("D_J\n").  time.ticks_ms() is a non-wrapping,           *)
(* non-decreasing millisecond clock, so ticks_diff(a, b) is a - b.         *)
(***************************************************************************)
EXTENDS Integers, Sequences, FiniteSets, TLC

None == "None"
\* None where a blob, respectively a coordinate pair, is expected
NoBlob == << >>
NoCoords == << >>

(***************************************************************************)
(* Zone tables                                                             *)
(***************************************************************************)
Zone(cx, cy, x, y, w, h, k) == [center |-> <<cx, cy>>, rect |-> <<x, y, w, h>>, key |-> k]

keymap_data ==
    << Zone(179, 161, 174, 152, 30, 30, "J"),
       Zone(143, 150, 138, 141, 30, 30, "H"),
       Zone(227, 149, 222, 140, 30, 30, "L"),
       Zone(62, 120, 57, 111, 30, 30, "R"),
       Zone(120, 150, 115, 141, 30, 30, "G"),
       Zone(5, 185, 0, 176, 30, 30, "Z"),
       Zone(50, 151, 45, 146, 30, 30, "D"),
       Zone(160, 191, 110, 206, 100, 30, "SPACE"),
       Zone(62, 113, 57, 104, 30, 30, "-"),
       Zone(222, 99, 217, 90, 10, 17, "BACK") >>

white_keys ==
    << Zone(50, 190, 40, 150, 20, 80, "C4"),
       Zone(70, 190, 60, 150, 20, 80, "D4"),
       Zone(90, 190, 80, 150, 20, 80, "E4"),
       Zone(110, 190, 100, 150, 20, 80, "F4"),
       Zone(130, 190, 120, 150, 20, 80, "G4"),
       Zone(150, 190, 140, 150, 20, 80, "A4"),
       Zone(170, 190, 160, 150, 20, 80, "B4"),
       Zone(190, 190, 180, 150, 20, 80, "C5"),
       Zone(210, 190, 200, 150, 20, 80, "D5"),
       Zone(230, 190, 220, 150, 20, 80, "E5") >>

black_keys ==
    << Zone(40, 125, 33, 100, 14, 50, "CS4"),
       Zone(60, 125, 53, 100, 14, 50, "DS4"),
       Zone(100, 125, 93, 100, 14, 50, "FS4"),
       Zone(120, 125, 113, 100, 14, 50, "GS4"),
       Zone(140, 125, 133, 100, 14, 50, "AS4"),
       Zone(180, 125, 173, 100, 14, 50, "CS5"),
       Zone(200, 125, 193, 100, 14, 50, "DS5") >>

pianokey_map_data == black_keys \o white_keys

(***************************************************************************)
(* Configuration                                                           *)
(***************************************************************************)
DEBOUNCE_TIME == 200
MIN_BLOB_PIXELS == 50
COORD_PRINT_INTERVAL == 2000
\* sensor.QVGA: centroids are integer pixels of a 320x240 image
FrameWidth == 320
FrameHeight == 240

(***************************************************************************)
(* Python helpers                                                          *)
(***************************************************************************)
\* truth value of an Optional[str] ("if current_key_found", "if last_pressed_key")
Truthy(k) == k # None /\ k # ""

ticks_diff(a, b) == a - b

\* variant of KeyContains: the edges belong to the rectangle
KeyContainsInclusive(cx, cy, rect) ==
    /\ cx >= rect[1] /\ cx <= rect[1] + rect[3]
    /\ cy >= rect[2] /\ cy <= rect[2] + rect[4]

\* the containment test of key.py's zone loop
KeyContains(cx, cy, rect) ==
    /\ cx > rect[1] /\ cx < rect[1] + rect[3]
    /\ cy > rect[2] /\ cy < rect[2] + rect[4]

\* the containment test of piano.py's zone loop
PianoContains(cx, cy, key_rect) ==
    /\ cx > key_rect[1] /\ cx < key_rect[1] + key_rect[3]
    /\ cy > key_rect[2] /\ cy < key_rect[2] + key_rect[4]

\* max(blobs, key=lambda b: b.pixels()): the first blob of maximal pixel count.
\* Index into blobs; blobs is non-empty.
\* variant of MaxFrom: a later blob of equal pixel count replaces the best so far
RECURSIVE MaxFromLast(_, _, _)
MaxFromLast(blobs, i, best) ==
    IF i > Len(blobs) THEN best
    ELSE MaxFromLast(blobs, i + 1, IF blobs[i].pixels >= blobs[best].pixels THEN i ELSE best)

\* max() scanning blobs from index i on, best being the index of the maximum so far
RECURSIVE MaxFrom(_, _, _)
MaxFrom(blobs, i, best) ==
    IF i > Len(blobs) THEN best
    ELSE MaxFrom(blobs, i + 1, IF blobs[i].pixels > blobs[best].pixels THEN i ELSE best)

PyMax(blobs) == MaxFrom(blobs, 2, 1)

\* piano.py's max(blobs, key=lambda b: b.pixels())
PianoMax(blobs) == MaxFrom(blobs, 2, 1)

\* variant of KeyLoop: without the break, the last containing zone wins
RECURSIVE KeyLoopNoBreak(_, _, _, _)
KeyLoopNoBreak(zones, i, cx, cy) ==
    IF i > Len(zones) THEN 0
    ELSE LET later == KeyLoopNoBreak(zones, i + 1, cx, cy)
         IN  IF later # 0 THEN later
             ELSE IF KeyContains(cx, cy, zones[i].rect) THEN i ELSE 0

\* key.py's zone loop from zone i on: index of the zone at which the loop
\* breaks, 0 if it runs to the end
RECURSIVE KeyLoop(_, _, _, _)
KeyLoop(zones, i, cx, cy) ==
    IF i > Len(zones) THEN 0
    ELSE IF KeyContains(cx, cy, zones[i].rect) THEN i
    ELSE KeyLoop(zones, i + 1, cx, cy)

\* current_key_found after key.py's loop: a zone whose key is "NULL" ends the
\* loop without setting it
KeyResolve(zones, cx, cy) ==
    LET i == KeyLoop(zones, 1, cx, cy)
    IN  IF i = 0 \/ zones[i].key = "NULL" THEN None ELSE zones[i].key

\* current_center_coords after key.py's loop
KeyResolveCenter(zones, cx, cy) ==
    LET i == KeyLoop(zones, 1, cx, cy)
    IN  IF i = 0 \/ zones[i].key = "NULL" THEN NoCoords ELSE zones[i].center

\* variant of PianoLoop: without the break
RECURSIVE PianoLoopNoBreak(_, _, _, _)
PianoLoopNoBreak(zones, i, cx, cy) ==
    IF i > Len(zones) THEN 0
    ELSE LET later == PianoLoopNoBreak(zones, i + 1, cx, cy)
         IN  IF later # 0 THEN later
             ELSE IF PianoContains(cx, cy, zones[i].rect) THEN i ELSE 0

\* piano.py's zone loop from zone i on
RECURSIVE PianoLoop(_, _, _, _)
PianoLoop(zones, i, cx, cy) ==
    IF i > Len(zones) THEN 0
    ELSE IF PianoContains(cx, cy, zones[i].rect) THEN i
    ELSE PianoLoop(zones, i + 1, cx, cy)

PianoResolve(zones, cx, cy) ==
    LET i == PianoLoop(zones, 1, cx, cy)
    IN  IF i = 0 THEN None ELSE zones[i].key

\* the command strings
ReleaseCmd(k) == "U_" \o k \o "\n"
PressCmd(k) == "D_" \o k \o "\n"

\* the keys of a zone table, and reading a command back
KeysOf(zones) == { zones[i].key : i \in 1..Len(zones) }
AllKeys == KeysOf(keymap_data) \cup KeysOf(pianokey_map_data)
PressCmds == { PressCmd(k) : k \in AllKeys }
ReleaseCmds == { ReleaseCmd(k) : k \in AllKeys }
IsPress(c) == c \in PressCmds
IsRelease(c) == c \in ReleaseCmds
KeyOf(c) == CHOOSE k \in AllKeys : c = PressCmd(k) \/ c = ReleaseCmd(k)
HasPress(ws) == \E i \in 1..Len(ws) : IsPress(ws[i])
HasRelease(ws) == \E i \in 1..Len(ws) : IsRelease(ws[i])

(***************************************************************************)
(* Bounds of the model                                                     *)
(***************************************************************************)
\* the main loop is followed for MaxFrames iterations
MaxFrames == 5
\* at most MaxBlobs blobs per frame
MaxBlobs == 2
\* time between the clock reads of two consecutive frames
FrameGaps == {100, 1900}
Blob(p, n) == [cx |-> p[1], cy |-> p[2], pixels |-> n]
\* blobs the detector reports in the frame loop: centred inside zone J, inside
\* zones R and "-", and in no zone (key.py); inside C4, inside CS4, in no zone
\* (piano.py)
KeySampleBlobs ==
    { Blob(<<180, 160>>, MIN_BLOB_PIXELS), Blob(<<180, 160>>, MIN_BLOB_PIXELS + 1),
      Blob(<<60, 120>>, MIN_BLOB_PIXELS + 1), Blob(<<100, 50>>, MIN_BLOB_PIXELS) }
PianoSampleBlobs ==
    { Blob(<<50, 190>>, MIN_BLOB_PIXELS), Blob(<<50, 190>>, MIN_BLOB_PIXELS + 1),
      Blob(<<40, 125>>, MIN_BLOB_PIXELS + 1), Blob(<<100, 50>>, MIN_BLOB_PIXELS) }
RECURSIVE ListsUpTo(_, _)
ListsUpTo(S, n) ==
    IF n = 0 THEN { <<>> }
    ELSE LET shorter == ListsUpTo(S, n - 1)
         IN  shorter \cup { Append(l, b) : l \in { m \in shorter : Len(m) = n - 1 }, b \in S }
KeyBlobLists == ListsUpTo(KeySampleBlobs, MaxBlobs)
PianoBlobLists == ListsUpTo(PianoSampleBlobs, MaxBlobs)

(***************************************************************************)
(* State                                                                   *)
(***************************************************************************)
VARIABLES
    program,             \* which script runs: "key" or "piano"
    frame_no,            \* iterations of the main loop so far
    now,                 \* time.ticks_ms() as last read (current_time)
    main_blob,           \* << the frame's dominant blob >>, NoBlob without blobs
    candidate,           \* current_key_found after the zone loop
    current_key_found,   \* current_key_found at the end of the frame
    last_pressed_key,
    last_key_time,
    last_center_coords,
    last_print_time,
    led_blue,            \* "on" / "off", None before the first transition
    uart,                \* commands written to uart_to_mcu in this frame, in order
    uart_prev,           \* last command written in an earlier frame, None if none
    report,              \* the line the periodic print showed in this frame, << >> if it did not fire
    press_time,          \* clock at the latest D_ written, -1 if none
    release_time,        \* clock at the latest U_ written, -1 if none
    uart_key,            \* last_pressed_key as it was at each write of this frame
    before_print,        \* key.py: << last_pressed_key, last_key_time, last_center_coords >>
                         \*   as the state machine block left them, before the periodic print
    run_times,           \* key.py: the clock of each frame of the current run of frames
                         \*   with the same candidate
    piano_key,           \* both state machines side by side: piano.py's last_pressed_key
    piano_uart,          \*   and the commands piano.py's block wrote in this frame
    probe_blobs,         \* blob selection on its own: the detector's list
    probe_table,         \* zone loop on its own: the name of the zone table,
    probe_cx,            \*   the centroid
    probe_cy,
    probe_hit            \*   and the index of the zone the loop stopped at, 0 if none

vars == << program, frame_no, now, main_blob, candidate, current_key_found, last_pressed_key,
           last_key_time, last_center_coords, last_print_time, led_blue, uart,
           uart_prev, report, press_time, release_time, uart_key, before_print,
           run_times, piano_key, piano_uart, probe_blobs, probe_table, probe_cx, probe_cy, probe_hit >>

frame_vars == << now, current_key_found, last_pressed_key, last_key_time,
                 last_center_coords, last_print_time, led_blue, uart, uart_prev,
                 report, press_time, release_time, uart_key, before_print, run_times >>
probe_vars == << probe_blobs, probe_table, probe_cx, probe_cy, probe_hit >>
pair_vars == << piano_key, piano_uart >>

\* the state variables of the scripts before the first frame
StartupState ==
    /\ frame_no = 0
    /\ now = 0
    /\ main_blob = NoBlob
    /\ candidate = None
    /\ current_key_found = None
    /\ last_pressed_key = None
    /\ last_key_time = 0
    /\ last_center_coords = NoCoords
    /\ last_print_time = 0
    /\ led_blue = None
    /\ uart = <<>>
    /\ uart_prev = None
    /\ report = << >>
    /\ press_time = -1
    /\ release_time = -1
    /\ uart_key = << >>
    /\ before_print = << None, 0, NoCoords >>
    /\ run_times = << >>
    /\ piano_key = None
    /\ piano_uart = << >>

Startup ==
    /\ program \in {"key", "piano"}
    /\ StartupState

Init ==
    /\ Startup
    /\ probe_blobs = << >>
    /\ probe_table = ""
    /\ probe_cx = 0
    /\ probe_cy = 0
    /\ probe_hit = 0

(***************************************************************************)
(* The key state machine                                                   *)
(***************************************************************************)
\* variants of KeyWrites: the release is not written; the press is written first
KeyWritesNoRelease(last, found) ==
    IF Truthy(found) THEN << PressCmd(found) >> ELSE << >>

KeyWritesPressFirst(last, found) ==
    (IF Truthy(found) THEN << PressCmd(found) >> ELSE << >>)
        \o (IF Truthy(last) THEN << ReleaseCmd(last) >> ELSE << >>)

\* key.py: the writes of a transition from key last to key found, in order
KeyWrites(last, found) ==
    (IF Truthy(last) THEN << ReleaseCmd(last) >> ELSE << >>)
        \o (IF Truthy(found) THEN << PressCmd(found) >> ELSE << >>)

\* variants of KeyStateMachine: without the debounce check; with the debounce
\* check holding back every transition; with <= in the debounce check
KeyStateMachineNoGate(cand, last, t, lkt, debounce) ==
    LET enter == cand # last \/ (Truthy(cand) /\ Truthy(last))
        change == enter /\ cand # last
    IN  [ found |-> cand,
          change |-> change,
          writes |-> IF change THEN KeyWrites(last, cand) ELSE << >>,
          key |-> IF change THEN cand ELSE last,
          time |-> IF change THEN t ELSE lkt ]

KeyStateMachineGateAll(cand, last, t, lkt, debounce) ==
    LET enter == cand # last \/ (Truthy(cand) /\ Truthy(last))
        change == enter /\ cand # last /\ ~(ticks_diff(t, lkt) < debounce)
    IN  [ found |-> cand,
          change |-> change,
          writes |-> IF change THEN KeyWrites(last, cand) ELSE << >>,
          key |-> IF change THEN cand ELSE last,
          time |-> IF change THEN t ELSE lkt ]

KeyStateMachineLe(cand, last, t, lkt, debounce) ==
    LET enter == cand # last \/ (Truthy(cand) /\ Truthy(last))
        found == IF enter /\ Truthy(cand) /\ ticks_diff(t, lkt) <= debounce
                 THEN None ELSE cand
        change == enter /\ found # last
    IN  [ found |-> found,
          change |-> change,
          writes |-> IF change THEN KeyWrites(last, found) ELSE << >>,
          key |-> IF change THEN found ELSE last,
          time |-> IF change THEN t ELSE lkt ]

\* variant of KeyStateMachine: a press held back by the debounce check sets
\* last_key_time as well
KeyStateMachineRestart(cand, last, t, lkt, debounce) ==
    LET enter == cand # last \/ (Truthy(cand) /\ Truthy(last))
        found == IF enter /\ Truthy(cand) /\ ticks_diff(t, lkt) < debounce
                 THEN None ELSE cand
        change == enter /\ found # last
    IN  [ found |-> found,
          change |-> change,
          writes |-> IF change THEN KeyWrites(last, found) ELSE << >>,
          key |-> IF change THEN found ELSE last,
          time |-> IF change \/ found # cand THEN t ELSE lkt ]

\* variant of KeyStateMachine: the block is entered only when the candidate
\* differs from last_pressed_key
KeyStateMachineNoReentry(cand, last, t, lkt, debounce) ==
    LET enter == cand # last
        found == IF enter /\ Truthy(cand) /\ ticks_diff(t, lkt) < debounce
                 THEN None ELSE cand
        change == enter /\ found # last
    IN  [ found |-> found,
          change |-> change,
          writes |-> IF change THEN KeyWrites(last, found) ELSE << >>,
          key |-> IF change THEN found ELSE last,
          time |-> IF change THEN t ELSE lkt ]

\* key.py's state machine block with debounce interval debounce: found is
\* current_key_found, key is last_pressed_key and time is last_key_time after it
KeyStateMachine(cand, last, t, lkt, debounce) ==
    LET enter == cand # last \/ (Truthy(cand) /\ Truthy(last))
        found == IF enter /\ Truthy(cand) /\ ticks_diff(t, lkt) < debounce
                 THEN None ELSE cand
        change == enter /\ found # last
    IN  [ found |-> found,
          change |-> change,
          writes |-> IF change THEN KeyWrites(last, found) ELSE << >>,
          key |-> IF change THEN found ELSE last,
          time |-> IF change THEN t ELSE lkt ]

\* variant of PianoWrites: the press is written first
PianoWritesPressFirst(last, found) ==
    (IF Truthy(found) THEN << PressCmd(found) >> ELSE << >>)
        \o (IF Truthy(last) THEN << ReleaseCmd(last) >> ELSE << >>)

\* piano.py: the writes of a transition
PianoWrites(last, found) ==
    (IF Truthy(last) THEN << ReleaseCmd(last) >> ELSE << >>)
        \o (IF Truthy(found) THEN << PressCmd(found) >> ELSE << >>)

\* variant of PianoStateMachine: a release leaves last_pressed_key as it was
PianoStateMachineKeepsKey(cand, last) ==
    LET change == cand # last
    IN  [ found |-> cand,
          change |-> change,
          writes |-> IF change THEN PianoWrites(last, cand) ELSE << >>,
          key |-> IF change /\ Truthy(cand) THEN cand ELSE last ]

\* piano.py's state machine block
PianoStateMachine(cand, last) ==
    LET change == cand # last
    IN  [ found |-> cand,
          change |-> change,
          writes |-> IF change THEN PianoWrites(last, cand) ELSE << >>,
          key |-> IF change THEN cand ELSE last ]

\* variant of KeyCoords: a blob outside every zone clears the coordinate
KeyCoordsClearing(has_blobs, current_center_coords, last) ==
    IF has_blobs /\ current_center_coords # NoCoords THEN current_center_coords
    ELSE NoCoords

\* key.py, lines 101-105: last_center_coords after the update
KeyCoords(has_blobs, current_center_coords, last) ==
    IF has_blobs /\ current_center_coords # NoCoords THEN current_center_coords
    ELSE IF ~has_blobs THEN NoCoords
    ELSE last

\* variants of PeriodicPrint: with > in the interval check; clearing the
\* coordinate once it is printed
PeriodicPrintLate(st, current_time) ==
    LET fire == ticks_diff(current_time, st.print_time) > COORD_PRINT_INTERVAL
    IN  [ key |-> st.key, time |-> st.time, coords |-> st.coords,
          print_time |-> IF fire THEN current_time ELSE st.print_time,
          line |-> IF ~fire THEN << >>
                   ELSE IF st.coords # NoCoords
                        THEN << "center", st.coords[1], st.coords[2] >>
                        ELSE << "none" >> ]

PeriodicPrintConsuming(st, current_time) ==
    LET fire == ticks_diff(current_time, st.print_time) >= COORD_PRINT_INTERVAL
    IN  [ key |-> st.key, time |-> st.time,
          coords |-> IF fire THEN NoCoords ELSE st.coords,
          print_time |-> IF fire THEN current_time ELSE st.print_time,
          line |-> IF ~fire THEN << >>
                   ELSE IF st.coords # NoCoords
                        THEN << "center", st.coords[1], st.coords[2] >>
                        ELSE << "none" >> ]

\* key.py, lines 137-143: the periodic print, run on the state st =
\* [key, time, coords, print_time] (last_pressed_key, last_key_time,
\* last_center_coords, last_print_time) the state machine block leaves; line
\* is what it prints, << >> if nothing
PeriodicPrint(st, current_time) ==
    LET fire == ticks_diff(current_time, st.print_time) >= COORD_PRINT_INTERVAL
    IN  [ key |-> st.key, time |-> st.time, coords |-> st.coords,
          print_time |-> IF fire THEN current_time ELSE st.print_time,
          line |-> IF ~fire THEN << >>
                   ELSE IF st.coords # NoCoords
                        THEN << "center", st.coords[1], st.coords[2] >>
                        ELSE << "none" >> ]

(***************************************************************************)
(* One iteration of the main loop                                          *)
(***************************************************************************)
\* key.py, lines 62-155
KeyFrame ==
    /\ program = "key"
    /\ frame_no < MaxFrames
    /\ \E gap \in FrameGaps, blobs \in KeyBlobLists :
        \E mb \in { IF blobs # << >> THEN << blobs[PyMax(blobs)] >> ELSE NoBlob } :
        \E found \in { IF blobs # << >>
                       THEN KeyResolve(keymap_data, mb[1].cx, mb[1].cy) ELSE None } :
        \E current_center_coords \in
               { IF blobs # << >>
                 THEN KeyResolveCenter(keymap_data, mb[1].cx, mb[1].cy) ELSE NoCoords } :
        \E coords \in { KeyCoords(blobs # << >>, current_center_coords, last_center_coords) } :
        \E current_time \in { now + gap } :
        \E sm \in { KeyStateMachine(found, last_pressed_key, current_time,
                                     last_key_time, DEBOUNCE_TIME) } :
        \E before \in { [ key |-> sm.key, time |-> sm.time, coords |-> coords,
                           print_time |-> last_print_time ] } :
        \E after \in { PeriodicPrint(before, current_time) } :
            /\ now' = current_time
            /\ main_blob' = mb
            /\ candidate' = found
            /\ current_key_found' = sm.found
            /\ before_print' = << before.key, before.time, before.coords >>
            /\ last_center_coords' = after.coords
            /\ last_pressed_key' = after.key
            /\ last_key_time' = after.time
            /\ report' = after.line
            /\ last_print_time' = after.print_time
            /\ uart_key' = [ i \in 1..Len(sm.writes) |-> last_pressed_key ]
            /\ led_blue' = IF sm.change
                           THEN (IF Truthy(sm.found) THEN "on" ELSE "off")
                           ELSE led_blue
            /\ uart' = sm.writes
            /\ uart_prev' = IF uart # << >> THEN uart[Len(uart)] ELSE uart_prev
            /\ press_time' = IF HasPress(sm.writes) THEN current_time ELSE press_time
            /\ release_time' = IF HasRelease(sm.writes) THEN current_time ELSE release_time
            /\ run_times' = IF found = candidate THEN Append(run_times, current_time)
                            ELSE << current_time >>
    /\ frame_no' = frame_no + 1
    /\ UNCHANGED << program, probe_vars, pair_vars >>

\* piano.py, lines 89-142
PianoFrame ==
    /\ program = "piano"
    /\ frame_no < MaxFrames
    /\ \E blobs \in PianoBlobLists :
        \E mb \in { IF blobs # << >> THEN << blobs[PianoMax(blobs)] >> ELSE NoBlob } :
        \E found \in { IF blobs # << >>
                       THEN PianoResolve(pianokey_map_data, mb[1].cx, mb[1].cy) ELSE None } :
        \E sm \in { PianoStateMachine(found, last_pressed_key) } :
            /\ main_blob' = mb
            /\ candidate' = found
            /\ current_key_found' = sm.found
            /\ last_pressed_key' = sm.key
            /\ led_blue' = IF sm.change
                           THEN (IF Truthy(sm.found) THEN "on" ELSE "off")
                           ELSE led_blue
            /\ uart' = sm.writes
            /\ uart_prev' = IF uart # << >> THEN uart[Len(uart)] ELSE uart_prev
            /\ press_time' = IF HasPress(sm.writes) THEN now ELSE press_time
            /\ release_time' = IF HasRelease(sm.writes) THEN now ELSE release_time
            /\ uart_key' = [ i \in 1..Len(sm.writes) |-> last_pressed_key ]
    /\ frame_no' = frame_no + 1
    /\ UNCHANGED << program, now, last_key_time, last_center_coords,
                    last_print_time, report, before_print, run_times, probe_vars, pair_vars >>

Next == KeyFrame \/ PianoFrame

Spec == Init /\ [][Next]_vars

(***************************************************************************)
(* Blob selection on its own: one frame's list in, dominant blob and the   *)
(* key it resolves to out                                                  *)
(***************************************************************************)
\* a list of up to MaxListLen blobs
MaxListLen == 3
ProbePixels == { MIN_BLOB_PIXELS, MIN_BLOB_PIXELS + 1, MIN_BLOB_PIXELS + 2 }
KeyProbeLists == ListsUpTo({ Blob(p, n) : p \in {<<180, 160>>, <<100, 50>>}, n \in ProbePixels },
                           MaxListLen)
PianoProbeLists == ListsUpTo({ Blob(p, n) : p \in {<<50, 190>>, <<100, 50>>}, n \in ProbePixels },
                             MaxListLen)

BlobInit ==
    /\ Startup
    /\ probe_blobs \in IF program = "key" THEN KeyProbeLists ELSE PianoProbeLists
    /\ probe_table = ""
    /\ probe_cx = 0
    /\ probe_cy = 0
    /\ probe_hit = 0

\* key.py, lines 72-99
KeySelect ==
    /\ program = "key"
    /\ frame_no = 0
    /\ \E mb \in { IF probe_blobs # << >> THEN << probe_blobs[PyMax(probe_blobs)] >>
                    ELSE NoBlob } :
          /\ main_blob' = mb
          /\ candidate' = IF probe_blobs # << >>
                          THEN KeyResolve(keymap_data, mb[1].cx, mb[1].cy) ELSE None
    /\ frame_no' = 1
    /\ UNCHANGED << program, frame_vars, probe_vars, pair_vars >>

\* piano.py, lines 95-116
PianoSelect ==
    /\ program = "piano"
    /\ frame_no = 0
    /\ \E mb \in { IF probe_blobs # << >> THEN << probe_blobs[PianoMax(probe_blobs)] >>
                    ELSE NoBlob } :
          /\ main_blob' = mb
          /\ candidate' = IF probe_blobs # << >>
                          THEN PianoResolve(pianokey_map_data, mb[1].cx, mb[1].cy) ELSE None
    /\ frame_no' = 1
    /\ UNCHANGED << program, frame_vars, probe_vars, pair_vars >>

BlobNext == KeySelect \/ PianoSelect

SpecBlob == BlobInit /\ [][BlobNext]_vars

(***************************************************************************)
(* The zone loop on its own: a centroid and a zone table in, the zone the  *)
(* loop stops at and current_key_found out                                 *)
(***************************************************************************)
\* a layout with rectangles of different sizes inside one another, in both
\* list orders
nested_layout ==
    << Zone(30, 30, 10, 10, 40, 40, "BIG1"),
       Zone(25, 25, 20, 20, 10, 10, "SMALL1"),
       Zone(105, 105, 100, 100, 10, 10, "SMALL2"),
       Zone(110, 110, 90, 90, 40, 40, "BIG2") >>

\* a layout with a zone of width 0 and a zone of negative width and height
malformed_layout ==
    << Zone(50, 50, 50, 40, 0, 20, "FLAT"),
       Zone(105, 105, 100, 100, 10, 10, "GOOD"),
       Zone(200, 200, 210, 210, -20, -20, "NEG") >>

Table(name) ==
    IF name = "keymap_data" THEN keymap_data
    ELSE IF name = "pianokey_map_data" THEN pianokey_map_data
    ELSE IF name = "malformed_layout" THEN malformed_layout
    ELSE nested_layout

ZoneInit ==
    /\ Startup
    /\ probe_blobs = << >>
    /\ probe_table \in { IF program = "key" THEN "keymap_data" ELSE "pianokey_map_data",
                          "nested_layout", "malformed_layout" }
    /\ probe_cx \in 0..(FrameWidth - 1)
    /\ probe_cy \in 0..(FrameHeight - 1)
    /\ probe_hit = 0

\* key.py, lines 86-99
KeyZoneLoop ==
    /\ program = "key"
    /\ frame_no = 0
    /\ probe_hit' = KeyLoop(Table(probe_table), 1, probe_cx, probe_cy)
    /\ candidate' = KeyResolve(Table(probe_table), probe_cx, probe_cy)
    /\ frame_no' = 1
    /\ UNCHANGED << program, main_blob, frame_vars, probe_blobs, probe_table,
                    probe_cx, probe_cy, pair_vars >>

\* piano.py, lines 107-116
PianoZoneLoop ==
    /\ program = "piano"
    /\ frame_no = 0
    /\ probe_hit' = PianoLoop(Table(probe_table), 1, probe_cx, probe_cy)
    /\ candidate' = PianoResolve(Table(probe_table), probe_cx, probe_cy)
    /\ frame_no' = 1
    /\ UNCHANGED << program, main_blob, frame_vars, probe_blobs, probe_table,
                    probe_cx, probe_cy, pair_vars >>

ZoneNext == KeyZoneLoop \/ PianoZoneLoop

SpecZone == ZoneInit /\ [][ZoneNext]_vars

(***************************************************************************)
(* The two state machine blocks side by side: the same frames, given as    *)
(* (clock, resolved key), go to key.py's block with a debounce interval of *)
(* 0 and to piano.py's block                                               *)
(***************************************************************************)
\* the clock may stand still between two frames
PairGaps == {0, 100}
PairKeys == {"J", "R", "C4"}

PairInit ==
    /\ program = "pair"
    /\ StartupState
    /\ probe_blobs = << >>
    /\ probe_table = ""
    /\ probe_cx = 0
    /\ probe_cy = 0
    /\ probe_hit = 0

\* key.py, lines 107-135 with DEBOUNCE_TIME = 0, and piano.py, lines 118-134
PairFrame ==
    /\ program = "pair"
    /\ frame_no < MaxFrames
    /\ \E gap \in PairGaps, found \in PairKeys \cup {None} :
        \E current_time \in { now + gap } :
        \E sm \in { KeyStateMachine(found, last_pressed_key, current_time, last_key_time, 0) } :
        \E pm \in { PianoStateMachine(found, piano_key) } :
            /\ now' = current_time
            /\ candidate' = found
            /\ current_key_found' = sm.found
            /\ last_pressed_key' = sm.key
            /\ last_key_time' = sm.time
            /\ uart' = sm.writes
            /\ piano_key' = pm.key
            /\ piano_uart' = pm.writes
    /\ frame_no' = frame_no + 1
    /\ UNCHANGED << program, main_blob, last_center_coords, last_print_time, led_blue,
                    uart_prev, report, press_time, release_time, uart_key,
                    before_print, run_times, probe_vars >>

PairNext == PairFrame

SpecPair == PairInit /\ [][PairNext]_vars

(***************************************************************************)
(* key.py's state machine block on its own: last_pressed_key,              *)
(* last_key_time, the clock and the resolved key in, the writes and the    *)
(* new last_pressed_key and last_key_time out                              *)
(***************************************************************************)
\* clock values on both sides of the debounce interval; ticks_ms wraps, so
\* last_key_time may also be the larger of the two
MachineTimes == {0, 1, 100, 199, 200, 201, 400}
MachineKeys == {None, "J", "R"}

MachineInit ==
    /\ program = "machine"
    /\ frame_no = 0
    /\ last_pressed_key \in MachineKeys
    /\ candidate \in MachineKeys
    /\ now \in MachineTimes
    /\ last_key_time \in MachineTimes
    /\ main_blob = NoBlob
    /\ current_key_found = None
    /\ last_center_coords = NoCoords
    /\ last_print_time = 0
    /\ led_blue = None
    /\ uart = << >>
    /\ uart_prev = None
    /\ report = << >>
    /\ press_time = -1
    /\ release_time = -1
    /\ uart_key = << >>
    /\ before_print = << None, 0, NoCoords >>
    /\ run_times = << >>
    /\ piano_key = None
    /\ piano_uart = << >>
    /\ probe_blobs = << >>
    /\ probe_table = ""
    /\ probe_cx = 0
    /\ probe_cy = 0
    /\ probe_hit = 0

\* key.py, lines 107-135
KeyMachineStep ==
    /\ program = "machine"
    /\ frame_no = 0
    /\ \E sm \in { KeyStateMachine(candidate, last_pressed_key, now, last_key_time,
                                    DEBOUNCE_TIME) } :
          /\ current_key_found' = sm.found
          /\ uart' = sm.writes
          /\ last_pressed_key' = sm.key
          /\ last_key_time' = sm.time
    /\ frame_no' = 1
    /\ UNCHANGED << program, now, main_blob, candidate, last_center_coords,
                    last_print_time, led_blue, uart_prev, report, press_time,
                    release_time, uart_key, before_print, run_times, probe_vars,
                    pair_vars >>

MachineNext == KeyMachineStep

SpecMachine == MachineInit /\ [][MachineNext]_vars

(***************************************************************************)
(* Properties of the frame loop (Spec)                                     *)
(***************************************************************************)
\* a step of Spec that processes one frame
FrameStep == frame_no' = frame_no + 1

\* the last command of the earlier frames followed by this frame's commands
Log == (IF uart_prev = None THEN << >> ELSE << uart_prev >>) \o uart

\* C1: in key.py and piano.py the commands written to the serial sink alternate
\* press, release, press, ... starting with a press, and each release names the
\* key of the press right before it.
C1_Alternation ==
    /\ \A i \in 1..Len(Log) : IsPress(Log[i]) \/ IsRelease(Log[i])
    /\ (uart_prev = None /\ uart # << >>) => IsPress(uart[1])
    /\ \A i \in 1..(Len(Log) - 1) :
          /\ IsPress(Log[i]) => Log[i + 1] = ReleaseCmd(KeyOf(Log[i]))
          /\ IsRelease(Log[i]) => IsPress(Log[i + 1])

\* a frame of key.py that releases the held key J and presses R
C1_Witness ==
    /\ program = "key"
    /\ uart_prev = "D_J\n"
    /\ uart = << "U_J\n", "D_R\n" >>

\* C2: in key.py, a frame whose dominant blob resolves to the key already held
\* writes no command and leaves activeKey as it is, whatever the time since
\* the press.
C2_HeldKeySilent ==
    [][ (program = "key" /\ FrameStep /\ Truthy(last_pressed_key)
            /\ candidate' = last_pressed_key)
        => (uart' = << >> /\ last_pressed_key' = last_pressed_key) ]_vars

\* C3 as amended: in key.py no D_ is written in a frame with
\* now - lastTransitionTime < DEBOUNCE_TIME, lastTransitionTime being the time
\* of the latest change of activeKey; so every D_ comes at least DEBOUNCE_TIME
\* after the D_ before it and after every U_ written in an earlier frame.
C3_Debounce ==
    [][ (program = "key" /\ FrameStep)
        => /\ last_key_time' = IF last_pressed_key' # last_pressed_key
                                THEN now' ELSE last_key_time
           /\ HasPress(uart')
                => /\ now' - last_key_time >= DEBOUNCE_TIME
                   /\ press_time >= 0 => now' - press_time >= DEBOUNCE_TIME
                   /\ release_time >= 0 => now' - release_time >= DEBOUNCE_TIME ]_vars

\* a press exactly DEBOUNCE_TIME after the release before it
C3_Witness ==
    /\ program = "key"
    /\ HasPress(uart)
    /\ release_time >= 0
    /\ now - release_time = DEBOUNCE_TIME

\* C3 as stated: ... and every D_ comes at least DEBOUNCE_TIME after the U_
\* before it (the U_ of the same frame included) and after the D_ before it.
C3_Original ==
    [][ (program = "key" /\ FrameStep /\ HasPress(uart'))
        => LET preceding_release == IF HasRelease(uart') THEN now' ELSE release_time
           IN  /\ now' - last_key_time >= DEBOUNCE_TIME
               /\ press_time >= 0 => now' - press_time >= DEBOUNCE_TIME
               /\ preceding_release >= 0 => now' - preceding_release >= DEBOUNCE_TIME ]_vars

\* C4: in key.py and piano.py, a frame with a key K held and candidate None
\* writes exactly U_K, no D_, and sets activeKey to None in that frame, however
\* short the time since the last transition.
C4_Release ==
    [][ (FrameStep /\ Truthy(last_pressed_key) /\ candidate' = None)
        => /\ uart' = << ReleaseCmd(last_pressed_key) >>
           /\ last_pressed_key' = None ]_vars

\* key.py releases J less than DEBOUNCE_TIME after pressing it
C4_Witness ==
    /\ program = "key"
    /\ candidate = None
    /\ uart = << "U_J\n" >>
    /\ last_pressed_key = None
    /\ now - press_time < DEBOUNCE_TIME

\* C5: in key.py and piano.py a frame writes at most one D_ and at most one
\* U_, and when it writes both, the U_ of the old activeKey comes before the
\* D_ of the new key.
C5_OnePressOneRelease ==
    [][ FrameStep
        => /\ Cardinality({ i \in 1..Len(uart') : IsPress(uart'[i]) }) <= 1
           /\ Cardinality({ i \in 1..Len(uart') : IsRelease(uart'[i]) }) <= 1
           /\ \A i \in 1..Len(uart') : IsPress(uart'[i]) \/ IsRelease(uart'[i])
           /\ (HasPress(uart') /\ HasRelease(uart'))
                => uart' = << ReleaseCmd(last_pressed_key), PressCmd(last_pressed_key') >> ]_vars

\* piano.py replaces the held C4 by CS4 in one frame
C5_Witness ==
    /\ program = "piano"
    /\ uart_prev = "D_C4\n"
    /\ uart = << "U_C4\n", "D_CS4\n" >>
    /\ last_pressed_key = "CS4"

\* C6: in key.py, a frame with activeKey None, a dominant blob resolving to key
\* K and now - lastTransitionTime >= DEBOUNCE_TIME writes exactly "D_K\n", sets
\* activeKey to K and lastTransitionTime to now; centroid (180,160) in zone J
\* (174,152,30,30) writes D_J.
C6_PressAfterIdle ==
    [][ (program = "key" /\ FrameStep /\ last_pressed_key = None
            /\ Truthy(candidate') /\ now' - last_key_time >= DEBOUNCE_TIME)
        => /\ uart' = << PressCmd(candidate') >>
           /\ last_pressed_key' = candidate'
           /\ last_key_time' = now'
           /\ (main_blob'[1].cx = 180 /\ main_blob'[1].cy = 160) => uart' = << "D_J\n" >> ]_vars

\* the first command of a run is D_J for a centroid at (180,160), exactly
\* DEBOUNCE_TIME after startup
C6_Witness ==
    /\ program = "key"
    /\ uart_prev = None
    /\ main_blob # NoBlob
    /\ main_blob[1].cx = 180 /\ main_blob[1].cy = 160
    /\ uart = << "D_J\n" >>
    /\ last_pressed_key = "J"
    /\ now = DEBOUNCE_TIME
    /\ last_key_time = now

(***************************************************************************)
(* Properties of the zone loop (SpecZone)                                  *)
(***************************************************************************)
ProbeZones == Table(probe_table)
Shipped == probe_table \in {"keymap_data", "pianokey_map_data"}

\* the probed centroid lies strictly inside the rectangle of zone i
StrictlyInside(i) ==
    LET r == ProbeZones[i].rect
    IN  /\ r[1] < probe_cx /\ probe_cx < r[1] + r[3]
        /\ r[2] < probe_cy /\ probe_cy < r[2] + r[4]

\* the probed centroid has a coordinate on one of the four edge lines of zone i
OnEdge(i) ==
    LET r == ProbeZones[i].rect
    IN  \/ probe_cx = r[1] \/ probe_cx = r[1] + r[3]
        \/ probe_cy = r[2] \/ probe_cy = r[2] + r[4]

\* C7 as amended: for every zone Z of the shipped tables and every integer point
\* strictly inside Z's rectangle and strictly inside the rectangle of no zone
\* listed before Z, the zone loop yields Z's key as the candidate.
C7_InsideResolves ==
    (frame_no = 1 /\ Shipped)
        => \A i \in 1..Len(ProbeZones) :
              (StrictlyInside(i) /\ \A j \in 1..(i - 1) : ~StrictlyInside(j))
                 => (probe_hit = i /\ candidate = ProbeZones[i].key)

\* (60,108) lies inside the rectangle of "-" only and resolves to "-"
C7_Witness ==
    /\ frame_no = 1
    /\ probe_table = "keymap_data"
    /\ probe_cx = 60 /\ probe_cy = 108
    /\ candidate = "-"

\* C7 as stated: every integer point strictly inside the rectangle of a zone Z
\* of the shipped tables resolves to Z's key.
C7_Original ==
    (frame_no = 1 /\ Shipped)
        => \A i \in 1..Len(ProbeZones) :
              StrictlyInside(i) => candidate = ProbeZones[i].key

\* C8: in key.py and piano.py the zone loop never selects a zone Z for a point
\* with cx = Z.x, cx = Z.x+Z.w, cy = Z.y or cy = Z.y+Z.h.
C8_StrictEdges ==
    frame_no = 1
        => \A i \in 1..Len(ProbeZones) :
              OnEdge(i) => (probe_hit # i /\ candidate # ProbeZones[i].key)

\* (204,160) is on the right edge of zone J, between its top and bottom, and
\* resolves to no zone
C8_Witness ==
    /\ frame_no = 1
    /\ program = "key"
    /\ probe_table = "keymap_data"
    /\ probe_cx = 204 /\ probe_cy = 160
    /\ probe_hit = 0
    /\ candidate = None

\* C9: in key.py and piano.py, a point strictly inside the rectangles of two or
\* more zones selects the one listed first, whatever the sizes of the
\* rectangles.
C9_FirstListedWins ==
    frame_no = 1
        => \A i, j \in 1..Len(ProbeZones) :
              (i < j /\ StrictlyInside(i) /\ StrictlyInside(j))
                 => /\ probe_hit # j
                    /\ probe_hit \in 1..i
                    /\ StrictlyInside(probe_hit)
                    /\ \A k \in 1..(probe_hit - 1) : ~StrictlyInside(k)
                    /\ candidate = ProbeZones[probe_hit].key

\* piano.py's loop picks the small rectangle listed before the big one around it
C9_Witness ==
    /\ frame_no = 1
    /\ program = "piano"
    /\ probe_table = "nested_layout"
    /\ probe_cx = 105 /\ probe_cy = 105
    /\ probe_hit = 3
    /\ candidate = "SMALL2"

\* a zone of the probed table has a non-positive width or height
Malformed ==
    \E i \in 1..Len(ProbeZones) :
        ProbeZones[i].rect[3] <= 0 \/ ProbeZones[i].rect[4] <= 0

\* C15: with a zone table that has a zone of non-positive width or height the
\* program stops before the first frame: the zone loop never runs on it.
C15_MalformedRejected ==
    Malformed => frame_no = 0

(***************************************************************************)
(* Properties of the blob selection (SpecBlob)                             *)
(***************************************************************************)
\* C10: in key.py and piano.py, an empty blob list selects no blob and gives
\* candidate None; otherwise the selected blob has a pixel count >= that of
\* every blob of the list and is the earliest of those with the maximal count.
C10_DominantBlob ==
    frame_no = 1
        => IF probe_blobs = << >>
           THEN main_blob = NoBlob /\ candidate = None
           ELSE /\ main_blob # NoBlob
                /\ \E i \in 1..Len(probe_blobs) :
                      /\ main_blob[1] = probe_blobs[i]
                      /\ \A j \in 1..Len(probe_blobs) :
                            probe_blobs[j].pixels <= probe_blobs[i].pixels
                      /\ \A j \in 1..(i - 1) :
                            probe_blobs[j].pixels < probe_blobs[i].pixels

\* of two blobs with the maximal pixel count the one at (180,160), listed
\* first, is selected, not the later one at (100,50)
C10_Witness ==
    /\ frame_no = 1
    /\ program = "key"
    /\ probe_blobs = << Blob(<<100, 50>>, 51), Blob(<<180, 160>>, 52), Blob(<<100, 50>>, 52) >>
    /\ main_blob = << Blob(<<180, 160>>, 52) >>
    /\ candidate = "J"

(***************************************************************************)
(* Properties of the periodic print and of the frame's side effects (Spec) *)
(***************************************************************************)
\* C11: in key.py a report is printed in a frame exactly when
\* now - lastReportTime >= COORD_PRINT_INTERVAL, and lastReportTime is then set
\* to now; so a report comes on the first frame at least COORD_PRINT_INTERVAL
\* after the previous one (or after startup) and not again before another
\* interval has passed, and in a frame without blob it is the "none" report.
C11_PeriodicReport ==
    [][ (program = "key" /\ FrameStep)
        => /\ (report' # << >>) <=> (now' - last_print_time >= COORD_PRINT_INTERVAL)
           /\ last_print_time' = IF report' # << >> THEN now' ELSE last_print_time
           /\ now' - last_print_time' < COORD_PRINT_INTERVAL
           /\ report' # << >>
                => /\ frame_no = 0 \/ now - last_print_time < COORD_PRINT_INTERVAL
                   /\ main_blob' = NoBlob => report' = << "none" >> ]_vars

\* the second "none" report of a run, COORD_PRINT_INTERVAL after the first
C11_Witness ==
    /\ program = "key"
    /\ frame_no = 4
    /\ main_blob = NoBlob
    /\ report = << "none" >>
    /\ now = 2 * COORD_PRINT_INTERVAL
    /\ last_print_time = now

\* C12: in key.py, when a transition occurs, activeKey (last_pressed_key)
\* already holds the new key at the moment each U_/D_ command is handed to the
\* serial sink.
C12_StateBeforeWrite ==
    program = "key"
        => \A i \in 1..Len(uart) : uart_key[i] = last_pressed_key

\* C14: in key.py the periodic print fires in a frame exactly when
\* now - last_print_time >= COORD_PRINT_INTERVAL, whatever the state machine
\* block did in that frame; it leaves last_pressed_key, last_key_time and
\* last_center_coords as the state machine block and the coordinate update left
\* them; and last_print_time changes only when the print fires, then to now.
C14_ReportIndependent ==
    [][ (program = "key" /\ FrameStep)
        => /\ (report' # << >>) <=> (now' - last_print_time >= COORD_PRINT_INTERVAL)
           /\ before_print' = << last_pressed_key', last_key_time', last_center_coords' >>
           /\ report' = << >> => last_print_time' = last_print_time
           /\ report' # << >> => last_print_time' = now' ]_vars

\* the print fires in a frame in which the held key J is seen again and the
\* state machine writes nothing
C14_Witness ==
    /\ program = "key"
    /\ report = << "center", 179, 161 >>
    /\ uart = << >>
    /\ candidate = "J"
    /\ current_key_found = "J"
    /\ last_pressed_key = "J"
    /\ last_key_time < now

\* C17: in key.py last_key_time becomes now in exactly the frames in which
\* last_pressed_key changes value and is unchanged in every other frame (also
\* in a frame whose press the debounce check holds back while no key is held),
\* and it never decreases.
C17_TransitionTime ==
    [][ (program = "key" /\ FrameStep)
        => /\ last_key_time' = IF last_pressed_key' # last_pressed_key
                               THEN now' ELSE last_key_time
           /\ last_key_time' >= last_key_time ]_vars

\* 100 ms after the release of a key, with no key held, the press of J is held
\* back and last_key_time is still the time of the release
C17_Witness ==
    /\ program = "key"
    /\ candidate = "J"
    /\ current_key_found = None
    /\ last_pressed_key = None
    /\ uart = << >>
    /\ uart_prev = "U_J\n"
    /\ release_time = last_key_time
    /\ now - last_key_time = 100


\* the "center" entry of the zone of key k in keymap_data
CenterOf(k) ==
    keymap_data[CHOOSE i \in 1..Len(keymap_data) : keymap_data[i].key = k].center

\* C18: in key.py, after each frame last_center_coords is None if the frame had
\* no blob, the center of the resolved zone if the dominant blob resolved to a
\* key (also when the debounce check holds the press back), and unchanged if a
\* blob was present but resolved to no key.
C18_LastKnownCoordinate ==
    [][ (program = "key" /\ FrameStep)
        => last_center_coords' =
              IF main_blob' = NoBlob THEN NoCoords
              ELSE IF candidate' # None THEN CenterOf(candidate')
              ELSE last_center_coords ]_vars

\* the press of R is held back by the debounce check, no key is held, and
\* last_center_coords is the center of zone R
C18_Witness ==
    /\ program = "key"
    /\ main_blob # NoBlob
    /\ candidate = "R"
    /\ current_key_found = None
    /\ last_pressed_key = None
    /\ uart = << >>
    /\ last_center_coords = CenterOf("R")


\* C19: in key.py, at the end of every frame, a held key K has
\* last_center_coords not None and equal to the center of the zone of K in
\* keymap_data.
C19_CoordinateAgrees ==
    (program = "key" /\ last_pressed_key # None)
        => /\ last_center_coords # NoCoords
           /\ last_center_coords = CenterOf(last_pressed_key)

\* R has been held over a frame that wrote nothing, and last_center_coords is
\* the center of zone R
C19_Witness ==
    /\ program = "key"
    /\ last_pressed_key = "R"
    /\ candidate = "R"
    /\ uart = << >>
    /\ last_key_time < now
    /\ last_center_coords = << 62, 120 >>

\* C20 as amended: in key.py, when every frame from some frame F on has
\* resolved to the same key K, then by the first frame DEBOUNCE_TIME or more
\* after F a D_K has been written in F or after it, unless K is held since
\* before F (then nothing is written for it).
C20_PressNotSuppressedForever ==
    (program = "key" /\ Truthy(candidate))
        => \A i \in 1..Len(run_times) :
              now - run_times[i] >= DEBOUNCE_TIME
                 => \/ press_time >= run_times[i]
                    \/ (last_pressed_key = candidate /\ last_key_time < run_times[i])

\* J is seen in four frames 100 ms apart: pressed, released in the second,
\* held back in the third, and pressed again in the fourth, DEBOUNCE_TIME after
\* the second
C20_Witness ==
    /\ program = "key"
    /\ candidate = "J"
    /\ Len(run_times) = 4
    /\ now - run_times[2] = DEBOUNCE_TIME
    /\ uart = << "D_J\n" >>
    /\ uart_prev = "U_J\n"
    /\ press_time = now
    /\ release_time = run_times[2]

\* C20 as stated: in key.py, when every frame from some frame F on has resolved
\* to the same key K, a D_K is written in F or after it (here: by the first
\* frame DEBOUNCE_TIME or more after F), whatever last_pressed_key and
\* last_key_time were at F.
C20_Original ==
    (program = "key" /\ Truthy(candidate))
        => \A i \in 1..Len(run_times) :
              now - run_times[i] >= DEBOUNCE_TIME => press_time >= run_times[i]

(***************************************************************************)
(* Properties of key.py's state machine block on its own (SpecMachine)     *)
(***************************************************************************)
\* the simpler formulation: the candidate is forced to None whenever it is not
\* None and t - lkt < DEBOUNCE_TIME, then there is a transition iff the gated
\* candidate differs from the held key
SimplerFormulation(cand, last, t, lkt) ==
    LET gated == IF cand # None /\ t - lkt < DEBOUNCE_TIME THEN None ELSE cand
        transition == gated # last
    IN  [ writes |-> IF ~transition THEN << >>
                     ELSE (IF last # None THEN << "U_" \o last \o "\n" >> ELSE << >>)
                          \o (IF gated # None THEN << "D_" \o gated \o "\n" >> ELSE << >>),
          key |-> IF transition THEN gated ELSE last,
          time |-> IF transition THEN t ELSE lkt ]

\* C16: for every last_pressed_key, candidate, now and last_key_time, key.py's
\* state machine block writes the same commands and leaves the same
\* last_pressed_key and last_key_time as the simpler formulation.
C16_SimplerEquivalent ==
    [][ (program = "machine" /\ FrameStep)
        => \E s \in { SimplerFormulation(candidate, last_pressed_key, now, last_key_time) } :
              /\ uart' = s.writes
              /\ last_pressed_key' = s.key
              /\ last_key_time' = s.time ]_vars

\* the held key J is seen again 100 ms after its press: the block is entered by
\* the second half of the outer condition, the debounce check makes the
\* candidate None, and J is released
C16_Witness ==
    /\ program = "machine"
    /\ frame_no = 1
    /\ candidate = "J"
    /\ current_key_found = None
    /\ uart = << "U_J\n" >>
    /\ last_pressed_key = None
    /\ now = 200
    /\ last_key_time = 200

(***************************************************************************)
(* Properties of the two state machine blocks side by side (SpecPair)      *)
(***************************************************************************)
\* C13: for every sequence of frames (non-decreasing time, resolved key or
\* None), piano.py's state machine block writes the same commands and has the
\* same activeKey after every frame as key.py's block with DEBOUNCE_TIME = 0.
C13_SameMachine ==
    /\ piano_uart = uart
    /\ piano_key = last_pressed_key

\* both blocks replace the held J by R in a frame at the clock value of the
\* press of J
C13_Witness ==
    /\ program = "pair"
    /\ now = 0
    /\ last_key_time = 0
    /\ uart = << "U_J\n", "D_R\n" >>
    /\ piano_uart = << "U_J\n", "D_R\n" >>
    /\ piano_key = "R"

====
